---- MODULE Spec2Model ----
(***************************************************************************)
(* The equities workflow (backend/orchestration/langgraph_workflow.py) as  *)
(* a state machine: the LangGraph nodes, the producers each node awaits,   *)
(* and the WorkflowState channels the nodes' returned deltas are merged    *)
(* into; and its components (the learning agent, the aggregation engine,   *)
(* the execution agent) called on their own.  Risks and confidences are    *)
(* integers in percent (0.8 is 80), weights in thousandths (1.0 is 1000).  *)
(***************************************************************************)
EXTENDS Integers, Sequences, FiniteSets, TLC

VARIABLES
    node,               \* the graph node that runs next / is running ("END" after finalize)
    status,             \* per producer coroutine: idle, running, settled, hung
    returned,           \* per producer coroutine: what its wrapper returned to gather
    agent_outputs,      \* WorkflowState.agent_outputs (reducer operator.or_)
    current_step,       \* WorkflowState.current_step
    vetoed,             \* WorkflowState.vetoed
    veto_reason,        \* WorkflowState.veto_reason
    aggregated_insight, \* WorkflowState.aggregated_insight
    alpha_signals,      \* WorkflowState.alpha_signals
    execution_orders,   \* WorkflowState.execution_orders
    learning_insights,  \* WorkflowState.learning_insights
    completed_at,       \* WorkflowState.completed_at
    errors,             \* WorkflowState.errors
    cache,              \* the redis key "aggregated:latest"
    pending_orders,     \* ExecutionAgent._pending_orders of this run's execution agent
    visited,            \* history: the nodes that have returned, in order
    writers             \* history: per producer id, the nodes that wrote its agent_outputs entry

VARIABLES
    weighting_method,   \* the setting agent_config / aggregation_weighting_method
    agent_weights,      \* the agent_weights table (AgentWeight): agent_id -> weight
    weight_settings,    \* the settings of category "agent_weights": "<id>_weight" -> value
    call,               \* a component called outside a workflow run: its next step
    risk_assessment,    \* the risk_assessment argument of a direct aggregate() call
    weight_changes,     \* what calculate_weight_adjustments returned last
    calls,              \* history: the aggregate() calls made, each with what it read
    args,               \* the arguments of a function called on its own
    answer              \* what that call returned

vars == <<node, status, returned, agent_outputs, current_step, vetoed, veto_reason,
          aggregated_insight, alpha_signals, execution_orders, learning_insights,
          completed_at, errors, cache, pending_orders, visited, writers,
          weighting_method, agent_weights, weight_settings, call, risk_assessment,
          weight_changes, calls, args, answer>>

\* the stores and the state of the components called on their own
componentVars == <<weighting_method, agent_weights, weight_settings, call, risk_assessment,
                   weight_changes, calls, args, answer>>

-----------------------------------------------------------------------------
(* Bounds *)

\* longest errors list a caller-supplied initial_state carries
MaxPriorErrors == 1

-----------------------------------------------------------------------------
(* Optional values *)

None == [present |-> FALSE]
Some(v) == [present |-> TRUE, value |-> v]

EmptyDict == [k \in {} |-> 0]

\* dict.get(key, default)
Get(d, k, default) == IF k \in DOMAIN d THEN d[k] ELSE default

\* a channel without a reducer: the delta replaces the value
LastValue(a, b) == b

\* a | b on dicts: the right operand wins on a shared key
DictOr(a, b) == [k \in (DOMAIN a) \cup (DOMAIN b) |-> IF k \in DOMAIN b THEN b[k] ELSE a[k]]

Range(s) == {s[i] : i \in DOMAIN s}

IsPrefix(s, t) == Len(s) <= Len(t) /\ SubSeq(t, 1, Len(s)) = s

\* abs()
Abs(x) == IF x < 0 THEN -x ELSE x

-----------------------------------------------------------------------------
(* Producers *)

\* the coroutines handed to asyncio.gather, in argument order
DataGatheringAgents == <<"macro_economics", "geopolitical", "commodities">>
AnalysisAgents == <<"sentiment", "fundamentals", "technical">>
AlphaAgents == <<"alternative_data", "cross_asset", "event_driven">>
LearningExecutionAgents == <<"learning", "execution">>

ParallelNodes == {"run_data_gathering", "run_analysis_agents", "run_alpha_agents"}

NodeAgents(n) ==
    CASE n = "run_data_gathering" -> DataGatheringAgents
      [] n = "run_analysis_agents" -> AnalysisAgents
      [] n = "run_alpha_agents" -> AlphaAgents
      [] n = "run_risk_agent" -> <<"risk">>
      [] n = "run_learning_execution" -> LearningExecutionAgents
      [] OTHER -> <<>>

ProducerNodes == ParallelNodes \cup {"run_risk_agent", "run_learning_execution"}

Tasks == UNION {Range(NodeAgents(n)) : n \in ProducerNodes}

\* the node whose handler awaits producer p
NodeOf(p) == CHOOSE n \in ProducerNodes : p \in Range(NodeAgents(n))

Outlooks == {"bearish", "neutral", "bullish"}

\* the forecast a producer emits when it succeeds (one fixed scenario per producer)
ForecastOf(p) ==
    CASE p = "macro_economics" -> [outlook |-> "bullish", confidence |-> 80]
      [] p = "geopolitical" -> [outlook |-> "bearish", confidence |-> 60]
      [] p = "commodities" -> [outlook |-> "neutral", confidence |-> 50]
      [] p = "sentiment" -> [outlook |-> "bullish", confidence |-> 70]
      [] p = "fundamentals" -> [outlook |-> "bullish", confidence |-> 90]
      [] p = "technical" -> [outlook |-> "bearish", confidence |-> 40]
      [] p = "alternative_data" -> [outlook |-> "neutral", confidence |-> 30]
      [] p = "cross_asset" -> [outlook |-> "bearish", confidence |-> 75]
      [] p = "event_driven" -> [outlook |-> "bullish", confidence |-> 0]
      [] OTHER -> [outlook |-> "neutral", confidence |-> 50]

\* AgentResult(success, output, error)
AgentResult(success, output, error) ==
    [exception |-> FALSE, success |-> success, output |-> output, error |-> error]

\* an exception object in gather's result list (return_exceptions=True)
ExceptionResult == [exception |-> TRUE, success |-> FALSE, output |-> None, error |-> "raised"]

NoResult == [exception |-> FALSE, success |-> FALSE, output |-> None, error |-> "pending"]

-----------------------------------------------------------------------------
(* What a producer's run() can do: return a result, or raise *)

Returns(result) == [kind |-> "return", result |-> result]
Raises == [kind |-> "raise", result |-> NoResult]

Forecast(p, predictions) ==
    [outlook |-> ForecastOf(p).outlook, confidence |-> ForecastOf(p).confidence,
     specific_predictions |-> predictions]

Succeeded(p, predictions) == AgentResult(TRUE, Some(Forecast(p, predictions)), "")
Failed == AgentResult(FALSE, None, "error")

\* the wrapper without its try/except: the exception reaches gather
RunUnwrapped(outcome) ==
    IF outcome.kind = "raise" THEN ExceptionResult ELSE outcome.result

\* run_macro() ... run_event(): try: return id, await agent.run()
\*                              except Exception as e: return id, AgentResult(success=False, error=str(e))
RunWrapped(outcome) ==
    IF outcome.kind = "raise" THEN AgentResult(FALSE, None, "error") ELSE outcome.result

-----------------------------------------------------------------------------
(* The graph *)

\* the router ignoring the veto
AlwaysContinue(state_vetoed) == "continue"

\* _should_continue_after_risk
ShouldContinueAfterRisk(state_vetoed) == IF state_vetoed THEN "vetoed" ELSE "continue"

\* the graph with the learning-and-execution step wired to END instead of finalize
EdgePastFinalize(n, state_vetoed) ==
    CASE n = "run_data_gathering" -> "run_analysis_agents"
      [] n = "run_analysis_agents" -> "run_alpha_agents"
      [] n = "run_alpha_agents" -> "run_risk_agent"
      [] n = "run_risk_agent" -> IF state_vetoed THEN "finalize" ELSE "run_aggregation"
      [] n = "run_aggregation" -> "run_learning_execution"
      [] n = "run_learning_execution" -> "END"
      [] n = "finalize" -> "END"

\* the edges of _build_graph; state_vetoed is the vetoed channel after the node's delta
Edge(n, state_vetoed) ==
    CASE n = "run_data_gathering" -> "run_analysis_agents"
      [] n = "run_analysis_agents" -> "run_alpha_agents"
      [] n = "run_alpha_agents" -> "run_risk_agent"
      [] n = "run_risk_agent" ->
            IF ShouldContinueAfterRisk(state_vetoed) = "vetoed" THEN "finalize"
            ELSE "run_aggregation"
      [] n = "run_aggregation" -> "run_learning_execution"
      [] n = "run_learning_execution" -> "finalize"
      [] n = "finalize" -> "END"

\* position of a node in the graph order
NodeOrder(n) ==
    CASE n = "run_data_gathering" -> 1
      [] n = "run_analysis_agents" -> 2
      [] n = "run_alpha_agents" -> 3
      [] n = "run_risk_agent" -> 4
      [] n = "run_aggregation" -> 5
      [] n = "run_learning_execution" -> 6
      [] n = "finalize" -> 7
      [] OTHER -> 8

\* state["current_step"] = ... at the top of a handler
StepRunning(n) ==
    CASE n = "run_data_gathering" -> "data_gathering"
      [] n = "run_analysis_agents" -> "analysis"
      [] n = "run_alpha_agents" -> "alpha_discovery"
      [] n = "run_risk_agent" -> "risk_management"
      [] n = "run_aggregation" -> "aggregation"
      [] n = "run_learning_execution" -> "learning_execution"

\* "current_step" of the delta a parallel handler returns
StepComplete(n) ==
    CASE n = "run_data_gathering" -> "data_gathering_complete"
      [] n = "run_analysis_agents" -> "analysis_complete"
      [] n = "run_alpha_agents" -> "alpha_discovery_complete"
      [] n = "run_learning_execution" -> "learning_execution_complete"

\* a wait that returns with the first coroutine to finish
FirstDone(n) == \E p \in Range(NodeAgents(n)) : status[p] = "settled"

\* await asyncio.gather(...) returns once every coroutine has returned
GatherDone(n) == \A p \in Range(NodeAgents(n)) : status[p] = "settled"

-----------------------------------------------------------------------------
(* The result loop of the three parallel handlers *)

\* gather's result list, in argument order
Results(n) == [i \in DOMAIN NodeAgents(n) |-> returned[NodeAgents(n)[i]]]

\* outputs[agent_id] = agent_result, for every result that is not an exception
PhaseOutputs(n) ==
    LET ids == {NodeAgents(n)[i] : i \in {j \in DOMAIN NodeAgents(n) : ~Results(n)[j].exception}}
    IN  [p \in ids |-> returned[p]]

\* the local list errors after the results 1..i: the loop appends str(result) for an
\* exception and f"{agent_id}: {agent_result.error}" for a failure
RECURSIVE PhaseErrorsUpTo(_, _)
PhaseErrorsUpTo(n, i) ==
    IF i = 0 THEN <<>>
    ELSE LET r == Results(n)[i]
             rest == PhaseErrorsUpTo(n, i - 1)
         IN  IF r.exception THEN Append(rest, "exception")
             ELSE IF ~r.success THEN Append(rest, NodeAgents(n)[i])
             ELSE rest

\* state.get("errors", []) + errors if errors else state.get("errors", [])
AppendErrors(state_errors, new) == IF new # <<>> THEN state_errors \o new ELSE state_errors

\* the "errors" value of the returned delta: data gathering returns its own list
ReturnedErrors(n, state_errors, new) ==
    IF n = "run_data_gathering" THEN (IF new # <<>> THEN new ELSE state_errors)
    ELSE AppendErrors(state_errors, new)

\* alpha_signals[agent_id] for every successful result with an output
AlphaSignals ==
    LET outs == PhaseOutputs("run_alpha_agents")
        ids == {p \in DOMAIN outs : outs[p].success /\ outs[p].output.present}
    IN  [p \in ids |-> [outlook |-> outs[p].output.value.outlook,
                        confidence |-> outs[p].output.value.confidence,
                        signals |-> outs[p].output.value.specific_predictions]]

\* history: node n wrote the agent_outputs entries of ids
Wrote(n, ids) == [p \in Tasks |-> IF p \in ids THEN writers[p] \cup {n} ELSE writers[p]]

-----------------------------------------------------------------------------
(* The risk gate: _run_risk_agent *)

PortfolioRiskLimit == 80
PositionRiskLimit == 90

\* specific_predictions of the risk forecast (percent): each key may be missing, a risk
\* may sit at its limit or above it, and the position map may be empty
RiskPredictions ==
    {EmptyDict,
     ("portfolio_risk" :> PortfolioRiskLimit),
     ("portfolio_risk" :> 85),
     ("portfolio_risk" :> PortfolioRiskLimit) @@ ("position_risks" :> EmptyDict),
     ("position_risks" :> (("SPY" :> PositionRiskLimit) @@ ("QQQ" :> 91))),
     ("portfolio_risk" :> PortfolioRiskLimit)
        @@ ("position_risks" :> (("SPY" :> PositionRiskLimit) @@ ("QQQ" :> PositionRiskLimit))),
     ("portfolio_risk" :> 85) @@ ("position_risks" :> ("SPY" :> 91))}

\* max(risk_data.get("position_risks", {}).values() or [0])
MaxPositionRiskOf(risk_data) ==
    LET d == Get(risk_data, "position_risks", EmptyDict)
    IN  IF DOMAIN d = {} THEN 0 ELSE CHOOSE x \in Range(d) : \A y \in Range(d) : y <= x

\* the veto rule with the comparisons not strict
VetoRuleAtLimit(portfolio_risk, max_position_risk) ==
    portfolio_risk >= PortfolioRiskLimit \/ max_position_risk >= PositionRiskLimit

\* vetoed = portfolio_risk > 0.8 or max_position_risk > 0.9
VetoRule(portfolio_risk, max_position_risk) ==
    portfolio_risk > PortfolioRiskLimit \/ max_position_risk > PositionRiskLimit

\* "; ".join(reasons)
VetoReasons(portfolio_risk, max_position_risk) ==
    (IF portfolio_risk > PortfolioRiskLimit THEN <<"Portfolio risk too high">> ELSE <<>>)
    \o (IF max_position_risk > PositionRiskLimit THEN <<"Position risk too high">> ELSE <<>>)

\* the delta the handler returns, a dict: a key it leaves out keeps its channel
RiskSuccessDelta(result) ==
    LET risk_data == result.output.value.specific_predictions
        portfolio_risk == Get(risk_data, "portfolio_risk", 0)
        max_position_risk == MaxPositionRiskOf(risk_data)
        v == VetoRule(portfolio_risk, max_position_risk)
    IN  [agent_outputs |-> ("risk" :> result),
         vetoed |-> v,
         veto_reason |-> IF v THEN Some(VetoReasons(portfolio_risk, max_position_risk)) ELSE None,
         current_step |-> "risk_complete"]

\* _run_risk_agent: the except branch, the success branch, or the fall-through return
RunRiskAgent(outcome, state_errors) ==
    IF outcome.kind = "raise"
    THEN [errors |-> state_errors \o <<"Risk agent error">>,
          current_step |-> "risk_failed",
          vetoed |-> FALSE]
    ELSE IF outcome.result.success /\ outcome.result.output.present
         THEN RiskSuccessDelta(outcome.result)
         ELSE [vetoed |-> FALSE, veto_reason |-> None, current_step |-> "risk_complete"]

-----------------------------------------------------------------------------
(* Producer weights: LearningAgent and the two stores *)

\* the weight of a producer with no weight on record: 1.0
DefaultWeight == 1000

\* the bounds of calculate_weight_adjustments: 0.1 and 2.0
MinWeight == 100
MaxWeight == 2000

\* data["current_weights"]: settings.get("<id>_weight", category="agent_weights", default=1.0)
\* for the six ids fetch_data reads a current weight for
CurrentWeights(settings) ==
    [a \in {"macro", "technical", "sentiment", "fundamentals", "geopolitical", "risk"} |->
        Get(settings, a, DefaultWeight)]

\* adjustment, times 100000, for stats in hundredths and weight_adjustment_rate = 0.1:
\* ((accuracy - 0.5) * 0.4 + (0.5 - brier_score) * 0.3 + sharpe_contribution / 10 * 0.3) * 0.1
AdjustmentE5(stats) ==
    40 * (Get(stats, "accuracy", 50) - 50)
    + 30 * (50 - Get(stats, "brier_score", 50))
    + 3 * Get(stats, "sharpe_contribution", 0)

\* the new weight left as it was computed
Unclamped(num, den) == [num |-> num, den |-> den]

\* max(0.1, min(2.0, new_weight)), on the fraction num / den (den > 0) of thousandths
ClampWeight(num, den) ==
    IF num > MaxWeight * den THEN [num |-> MaxWeight * den, den |-> den]
    ELSE IF num < MinWeight * den THEN [num |-> MinWeight * den, den |-> den]
    ELSE [num |-> num, den |-> den]

\* round(new_weight, 3): the nearest thousandth, a tie going to the even one
Round3(x) ==
    LET q == x.num \div x.den
        r == x.num % x.den
    IN  IF 2 * r > x.den \/ (2 * r = x.den /\ q % 2 = 1) THEN q + 1 ELSE q

\* LearningAgent.__init__ default
MinPredictions == 10

\* statistics for every producer that has an outcome
StatsOfAll(outcome_counts, stats_of) ==
    [a \in {x \in DOMAIN outcome_counts : outcome_counts[x] > 0} |-> stats_of[a]]

\* _calculate_agent_stats: a producer with fewer than min_predictions outcomes is skipped;
\* outcome_counts[a] is len(agent_outcomes[a]) and stats_of[a] what its outcomes amount to
CalculateAgentStats(outcome_counts, stats_of) ==
    [a \in {x \in DOMAIN outcome_counts :
                outcome_counts[x] > 0 /\ ~(outcome_counts[x] < MinPredictions)} |-> stats_of[a]]

\* new_weight = current * (1 + adjustment), clamped and rounded
NewWeight(current, stats) ==
    Round3(ClampWeight(current * (100000 + AdjustmentE5(stats)), 100000))

\* calculate_weight_adjustments
CalculateWeightAdjustments(stats_by_agent, current_weights) ==
    [a \in DOMAIN stats_by_agent |->
        NewWeight(Get(current_weights, a, DefaultWeight), stats_by_agent[a])]

\* SettingsManager.set(category, key, value, ...): the parameters without a default
SetParameters == <<"category", "key", "value">>

\* Python binds a call: positional arguments to the first parameters, keyword arguments by
\* name; a parameter bound twice or a parameter without a default left unbound is a TypeError
BindsSet(positional, keywords) ==
    /\ positional <= Len(SetParameters)
    /\ \A i \in 1..positional : SetParameters[i] \notin keywords
    /\ \A i \in (positional + 1)..Len(SetParameters) : SetParameters[i] \in keywords

\* apply_weight_adjustments: for each weight,
\* try: settings.set(f"{agent_id}_weight", weight, category="agent_weights")
\* except Exception: log; the rows are written only if the call binds
ApplyWeightAdjustments(settings, new_weights) ==
    IF BindsSet(2, {"category"}) THEN DictOr(settings, new_weights) ELSE settings

\* _get_agent_weights: 1.0 under the "equal" method, else the agent_weights table's rows
GetAgentWeights(ids, method, table) ==
    IF method = "equal"
    THEN [p \in ids |-> DefaultWeight]
    ELSE [p \in ids |-> Get(table, p, DefaultWeight)]

-----------------------------------------------------------------------------
(* The aggregation step: _run_aggregation and AggregationEngine.aggregate *)

\* valid_outputs: the outputs of the successful results
\* the successful outputs without the risk gate's
WithoutRisk(outputs) ==
    LET ids == {p \in DOMAIN outputs :
                   p # "risk" /\ outputs[p].success /\ outputs[p].output.present}
    IN  [p \in ids |-> outputs[p].output.value]

ValidOutputs(outputs) ==
    LET ids == {p \in DOMAIN outputs : outputs[p].success /\ outputs[p].output.present}
    IN  [p \in ids |-> outputs[p].output.value]

\* every key agent_outputs can hold
ProducerIds == DataGatheringAgents \o AnalysisAgents \o AlphaAgents \o <<"risk">>

\* the score of a producer whose weight is not looked up
UnweightedScore(outputs, weights, o, p) ==
    IF p \in DOMAIN outputs /\ outputs[p].outlook = o
    THEN DefaultWeight * outputs[p].confidence
    ELSE 0

\* weighted_score of producer p, counted in bucket o only
WeightedScore(outputs, weights, o, p) ==
    IF p \in DOMAIN outputs /\ outputs[p].outlook = o
    THEN Get(weights, p, DefaultWeight) * outputs[p].confidence
    ELSE 0

RECURSIVE ScoreUpTo(_, _, _, _)
ScoreUpTo(outputs, weights, o, i) ==
    IF i = 0 THEN 0
    ELSE WeightedScore(outputs, weights, o, ProducerIds[i]) + ScoreUpTo(outputs, weights, o, i - 1)

\* outlook_scores[o] before normalisation: the sum of weight * confidence over bucket o
OutlookScore(outputs, weights, o) == ScoreUpTo(outputs, weights, o, Len(ProducerIds))

TotalWeight(outputs, weights) ==
    OutlookScore(outputs, weights, "bearish") + OutlookScore(outputs, weights, "neutral")
    + OutlookScore(outputs, weights, "bullish")

\* the last maximum in the dict's order
LastMaximum(outputs, weights) ==
    LET b == OutlookScore(outputs, weights, "bearish")
        n == OutlookScore(outputs, weights, "neutral")
        u == OutlookScore(outputs, weights, "bullish")
    IN  IF u >= n /\ u >= b THEN "bullish"
        ELSE IF n >= b THEN "neutral"
        ELSE "bearish"

\* max(outlook_scores, key=outlook_scores.get): the first maximum in the dict's order
WinningOutlook(outputs, weights) ==
    LET b == OutlookScore(outputs, weights, "bearish")
        n == OutlookScore(outputs, weights, "neutral")
        u == OutlookScore(outputs, weights, "bullish")
    IN  IF b >= n /\ b >= u THEN "bearish"
        ELSE IF n >= u THEN "neutral"
        ELSE "bullish"

\* outlook_scores[o] after "if total_weight > 0: outlook_scores[outlook] /= total_weight",
\* as the fraction num / den
NormalizedScore(outputs, weights, o) ==
    LET total == TotalWeight(outputs, weights)
    IN  IF total > 0
        THEN [num |-> OutlookScore(outputs, weights, o), den |-> total]
        ELSE [num |-> OutlookScore(outputs, weights, o), den |-> 1]

\* the winner's normalised score, as the fraction num / den
WinningConfidence(outputs, weights) ==
    LET total == TotalWeight(outputs, weights)
    IN  IF total > 0
        THEN [num |-> OutlookScore(outputs, weights, WinningOutlook(outputs, weights)),
              den |-> total]
        ELSE [num |-> 0, den |-> 1]

\* the insertion order of the agent_outputs the workflow's nodes build
WorkflowOrder(outputs) == SelectSeq(ProducerIds, LAMBDA p : p \in DOMAIN outputs)

\* [aid for aid, o in outputs.items() if o.forecast.outlook == outlook]
AgentsWith(outputs, order, outlook) ==
    SelectSeq(order, LAMBDA p : p \in DOMAIN outputs /\ outputs[p].outlook = outlook)

\* a conflict entry whenever two outlooks are present
ConflictOnAnyDisagreement(outputs, weights, order) ==
    IF Cardinality({outputs[p].outlook : p \in DOMAIN outputs}) > 1
    THEN <<[type |-> "outlook_disagreement",
            bearish |-> AgentsWith(outputs, order, "bearish"),
            bullish |-> AgentsWith(outputs, order, "bullish"),
            resolution |-> WinningOutlook(outputs, weights)]>>
    ELSE <<>>

Conflicts(outputs, weights, order) ==
    LET bearish_agents == AgentsWith(outputs, order, "bearish")
        bullish_agents == AgentsWith(outputs, order, "bullish")
    IN  IF Cardinality({outputs[p].outlook : p \in DOMAIN outputs}) > 1
           /\ bearish_agents # <<>> /\ bullish_agents # <<>>
        THEN <<[type |-> "outlook_disagreement", bearish |-> bearish_agents,
                bullish |-> bullish_agents,
                resolution |-> WinningOutlook(outputs, weights)]>>
        ELSE <<>>

\* risk_assessment built from the "risk" entry of agent_outputs
RiskAssessmentOf(outputs, state_vetoed, state_veto_reason) ==
    IF "risk" \in DOMAIN outputs /\ outputs["risk"].success /\ outputs["risk"].output.present
    THEN Some([approved |-> ~state_vetoed, veto_reason |-> state_veto_reason])
    ELSE None

\* what _synthesize_with_claude can return
Syntheses ==
    {[reasoning |-> "synthesis", recommendations |-> <<"recommendation">>],
     \* client.complete() raised
     [reasoning |-> "Synthesis failed", recommendations |-> <<>>],
     \* no API key: the client's mock response
     [reasoning |-> "Mock synthesis - API key not configured",
      recommendations |-> <<"Configure API key for real synthesis">>],
     \* the answer is not JSON: the answer's text is the reasoning
     [reasoning |-> "answer text", recommendations |-> <<>>]}

\* the empty insight without its reason
UnexplainedInsight(reason) ==
    [overall_outlook |-> "neutral", confidence |-> [num |-> 0, den |-> 1],
     agent_outputs |-> {}, conflicts |-> <<>>, resolution_reasoning |-> "",
     final_recommendations |-> <<>>, vetoed |-> FALSE, veto_reason |-> None]

EmptyInsight(reason) ==
    [overall_outlook |-> "neutral", confidence |-> [num |-> 0, den |-> 1],
     agent_outputs |-> {}, conflicts |-> <<>>, resolution_reasoning |-> reason,
     final_recommendations |-> <<>>, vetoed |-> FALSE, veto_reason |-> None]

Aggregate(outputs, order, risk, method, table, synthesis) ==
    LET valid_outputs == ValidOutputs(outputs)
        weights == GetAgentWeights(DOMAIN valid_outputs, method, table)
        is_vetoed == risk.present /\ ~risk.value.approved
    IN  IF DOMAIN valid_outputs = {}
        THEN EmptyInsight("No valid agent outputs available")
        ELSE [overall_outlook |-> WinningOutlook(valid_outputs, weights),
              confidence |-> WinningConfidence(valid_outputs, weights),
              agent_outputs |-> DOMAIN valid_outputs,
              conflicts |-> Conflicts(valid_outputs, weights, order),
              resolution_reasoning |-> synthesis.reasoning,
              final_recommendations |-> synthesis.recommendations,
              vetoed |-> is_vetoed,
              veto_reason |-> IF is_vetoed THEN risk.value.veto_reason ELSE None]

\* the json the handler stores under "aggregated:latest"
CachedInsight(insight) ==
    [overall_outlook |-> insight.overall_outlook, confidence |-> insight.confidence,
     resolution_reasoning |-> insight.resolution_reasoning,
     final_recommendations |-> insight.final_recommendations, vetoed |-> insight.vetoed]

\* the "aggregated_insight" value of the returned delta
StateInsight(insight) ==
    [outlook |-> insight.overall_outlook, confidence |-> insight.confidence,
     recommendations |-> insight.final_recommendations, conflicts |-> insight.conflicts,
     vetoed |-> insight.vetoed]

-----------------------------------------------------------------------------
(* Outcome attribution: LearningAgent._attribute_outcomes.  Dates are day numbers,    *)
(* returns are thousandths (0.02 is 20), attribution scores are thousandths.          *)

\* the forward window of a declared timeframe, 5 for one the table does not hold
TimeframeDays(timeframe) ==
    IF timeframe = "1week" THEN 5
    ELSE IF timeframe = "1month" THEN 21
    ELSE IF timeframe = "3month" THEN 63
    ELSE IF timeframe = "1year" THEN 252
    ELSE 5

\* the sum of the returns found on the days of a set
RECURSIVE SumReturns(_, _)
SumReturns(market_returns, days) ==
    IF days = {} THEN 0
    ELSE LET day == CHOOSE x \in days : TRUE
         IN  Get(market_returns, day, 0) + SumReturns(market_returns, days \ {day})

\* the sum over forward_dates: timestamp + i days for i in
\* range(1, min(timeframe_days + 1, len(market_returns)))
CumulativeReturn(pred, market_returns) ==
    LET last == TimeframeDays(pred.timeframe) + 1
        n == Cardinality(DOMAIN market_returns)
        forward_dates == {pred.timestamp + i : i \in 1..((IF last < n THEN last ELSE n) - 1)}
    IN  SumReturns(market_returns, forward_dates)

ActualDirection(actual_return) ==
    IF actual_return > 5 THEN "bullish" ELSE IF actual_return < -5 THEN "bearish" ELSE "neutral"

\* a forecast is right when the actual direction is the one it gave
DirectionMatches(predicted_direction, actual_return) ==
    predicted_direction = ActualDirection(actual_return)

WasCorrect(predicted_direction, actual_return) ==
    \/ predicted_direction = "bullish" /\ actual_return > 0
    \/ predicted_direction = "bearish" /\ actual_return < 0
    \/ predicted_direction = "neutral" /\ Abs(actual_return) < 20

\* _attribute_outcomes: one record for each prediction with a cumulative return # 0;
\* its attribution is confidence * abs(actual_return) * 100, negated for a wrong forecast
RECURSIVE AttributeOutcomes(_, _)
AttributeOutcomes(predictions, market_returns) ==
    IF predictions = <<>> THEN <<>>
    ELSE LET pred == Head(predictions)
             cumulative_return == CumulativeReturn(pred, market_returns)
             was_correct == WasCorrect(pred.outlook, cumulative_return)
             outcome ==
                 [prediction_id |-> pred.id,
                  agent_id |-> pred.agent_id,
                  predicted_outlook |-> pred.outlook,
                  predicted_confidence |-> pred.confidence,
                  prediction_date |-> pred.timestamp,
                  target_date |-> pred.timestamp + TimeframeDays(pred.timeframe),
                  actual_return |-> cumulative_return,
                  actual_direction |-> ActualDirection(cumulative_return),
                  was_correct |-> was_correct,
                  attribution_score |->
                      IF was_correct THEN pred.confidence * Abs(cumulative_return)
                      ELSE -(pred.confidence * Abs(cumulative_return))]
         IN  (IF cumulative_return # 0 THEN <<outcome>> ELSE <<>>)
             \o AttributeOutcomes(Tail(predictions), market_returns)

-----------------------------------------------------------------------------
(* The position sizer as the workflow uses it: ExecutionAgent *)

ConfidenceBelow(c, pct) == c.num * 100 < pct * c.den

\* Python floats as exact fractions [num, den] in lowest terms, den > 0
RECURSIVE GCD(_, _)
GCD(a, b) == IF b = 0 THEN a ELSE GCD(b, a % b)

Rat(n, d) ==
    LET g == GCD(Abs(n), Abs(d))
        sign == IF d < 0 THEN -1 ELSE 1
    IN  [num |-> (sign * n) \div g, den |-> (sign * d) \div g]

Whole(n) == [num |-> n, den |-> 1]

Lowest(x) == Rat(x.num, x.den)

Times(x, y) ==
    LET a == Rat(x.num, y.den)
        b == Rat(y.num, x.den)
    IN  Rat(a.num * b.num, a.den * b.den)

Over(x, y) == Times(x, [num |-> y.den, den |-> y.num])

Plus(x, y) ==
    LET a == Lowest(x)
        b == Lowest(y)
    IN  Rat(a.num * b.den + b.num * a.den, a.den * b.den)

Minus(x, y) == Plus(x, [num |-> -y.num, den |-> y.den])

Less(x, y) ==
    LET a == Lowest(x)
        b == Lowest(y)
    IN  a.num * b.den < b.num * a.den

Smaller(x, y) == IF Less(y, x) THEN Lowest(y) ELSE Lowest(x)

AbsOf(x) == Lowest([num |-> Abs(x.num), den |-> x.den])

\* round(x, 2): the nearest hundredth, a tie going to the even one
Round2(x) ==
    LET a == Lowest(x)
        n == a.num * 100
        q == n \div a.den
        r == n % a.den
    IN  Rat(IF 2 * r > a.den \/ (2 * r = a.den /\ q % 2 = 1) THEN q + 1 ELSE q, 100)

\* ExecutionAgent.__init__ defaults
PortfolioValue == 100000
MaxPositionPct == Rat(25, 100)
KellyFraction == Rat(5, 10)

\* the fractional Kelly without the maximum position constraint
Uncapped(full_kelly) == Times(full_kelly, KellyFraction)

\* recommended = min(full_kelly * self.kelly_fraction, self.max_position_pct)
Recommended(full_kelly) == Smaller(Times(full_kelly, KellyFraction), MaxPositionPct)

\* calculate_kelly_position; int() cuts the quotient off towards zero
CalculateKellyPosition(symbol, win_probability, expected_win_pct, expected_loss_pct, price) ==
    LET p == win_probability
        q == Minus(Whole(1), p)
        b == IF Less(Whole(0), expected_loss_pct)
             THEN Over(expected_win_pct, expected_loss_pct) ELSE Whole(1)
        kelly == IF Less(Whole(0), b) THEN Over(Minus(Times(p, b), q), b) ELSE Whole(0)
        full_kelly == IF Less(kelly, Whole(0)) THEN Whole(0) ELSE Smaller(Whole(1), kelly)
        recommended == Recommended(full_kelly)
        position_dollars == Times(Whole(PortfolioValue), recommended)
        shares == Over(position_dollars, price)
    IN  [symbol |-> symbol,
         kelly_fraction |-> full_kelly,
         recommended_fraction |-> recommended,
         position_size_dollars |-> position_dollars,
         position_size_shares |->
             IF ~Less(Whole(0), price) THEN 0
             ELSE IF shares.num >= 0 THEN shares.num \div shares.den
             ELSE -((-shares.num) \div shares.den),
         win_probability |-> Lowest(p),
         win_loss_ratio |-> b,
         edge |-> Minus(Times(p, expected_win_pct), Times(q, expected_loss_pct))]

ActionOf(outlook) == IF outlook = "bullish" THEN "buy" ELSE "short"

\* outlook_to_signal_strength
OutlookToSignalStrength(outlook, confidence) ==
    IF outlook = "bullish"
    THEN IF ~ConfidenceBelow(confidence, 80) THEN "strong_buy"
         ELSE IF ~ConfidenceBelow(confidence, 60) THEN "buy" ELSE "weak_buy"
    ELSE IF outlook = "bearish"
    THEN IF ~ConfidenceBelow(confidence, 80) THEN "strong_sell"
         ELSE IF ~ConfidenceBelow(confidence, 60) THEN "sell" ELSE "weak_sell"
    ELSE "neutral"

\* what fetch_data found: market_prices[symbol]["price"], volatility[symbol]["daily_vol"],
\* historical_accuracy[symbol]["win_rate"]; an absent key is an absent symbol
NoMarketData ==
    [market_prices |-> EmptyDict, volatility |-> EmptyDict, historical_accuracy |-> EmptyDict]

\* generate_trade_signals: the primary signal on SPY with a target and a stop of 2x daily
\* volatility over 5 and 2 days, and from confidence 0.7 the secondary signal on QQQ with
\* the same action and strength and confidence * 0.9
GenerateTradeSignals(aggregated, data) ==
    IF ~aggregated.present THEN <<>>
    ELSE LET outlook == aggregated.value.overall_outlook
             confidence == aggregated.value.confidence
             up == outlook = "bullish"
             spy_price == Get(data.market_prices, "SPY", Whole(475))
             vol == Get(data.volatility, "SPY", Rat(1, 100))
             qqq_price == Get(data.market_prices, "QQQ", Whole(400))
             spy_target ==
                 Times(spy_price, IF up THEN Plus(Whole(1), Times(vol, Whole(10)))
                                  ELSE Minus(Whole(1), Times(vol, Whole(10))))
             spy_stop ==
                 Times(spy_price, IF up THEN Minus(Whole(1), Times(vol, Whole(4)))
                                  ELSE Plus(Whole(1), Times(vol, Whole(4))))
             spy == [symbol |-> "SPY", action |-> ActionOf(outlook),
                     strength |-> OutlookToSignalStrength(outlook, confidence),
                     confidence |-> confidence,
                     target_price |-> Round2(spy_target), stop_loss |-> Round2(spy_stop)]
             qqq == [symbol |-> "QQQ", action |-> ActionOf(outlook),
                     strength |-> OutlookToSignalStrength(outlook, confidence),
                     confidence |-> [num |-> confidence.num * 9, den |-> confidence.den * 10],
                     target_price |->
                         Round2(Times(qqq_price, IF up THEN Rat(105, 100) ELSE Rat(95, 100))),
                     stop_loss |->
                         Round2(Times(qqq_price, IF up THEN Rat(97, 100) ELSE Rat(103, 100)))]
         IN  IF ConfidenceBelow(confidence, 60) THEN <<>>
             ELSE IF outlook \in {"bullish", "bearish"}
             THEN <<spy>> \o (IF ~ConfidenceBelow(confidence, 70) THEN <<qqq>> ELSE <<>>)
             ELSE <<>>

\* an order needs approval only for its size
ApprovalOnSizeOnly(kelly, strength) == Less(Rat(15, 100), kelly.recommended_fraction)

\* requires_approval: a large position, a low edge or an extreme signal
RequiresApproval(kelly, strength) ==
    \/ Less(Rat(15, 100), kelly.recommended_fraction)
    \/ Less(kelly.edge, Rat(2, 100))
    \/ strength \in {"strong_buy", "strong_sell"}

\* every order a market order
AlwaysMarket(confidence) == "market"

\* order_type = LIMIT if signal.confidence < 0.8 else MARKET
OrderTypeOf(confidence) == IF ConfidenceBelow(confidence, 80) THEN "limit" ELSE "market"

\* generate_execution_orders: one order for each signal
GenerateExecutionOrders(signals, data) ==
    [i \in DOMAIN signals |->
        LET signal == signals[i]
            win_prob == Get(data.historical_accuracy, signal.symbol, signal.confidence)
            price == Get(data.market_prices, signal.symbol, Whole(100))
            expected_win ==
                IF signal.target_price.num # 0
                THEN Over(AbsOf(Minus(signal.target_price, price)), price) ELSE Rat(5, 100)
            expected_loss ==
                IF signal.stop_loss.num # 0
                THEN Over(AbsOf(Minus(price, signal.stop_loss)), price) ELSE Rat(3, 100)
            kelly == CalculateKellyPosition(signal.symbol, win_prob, expected_win,
                                            expected_loss, price)
        IN  [symbol |-> signal.symbol,
             action |-> signal.action,
             quantity |-> kelly.position_size_shares,
             order_type |-> OrderTypeOf(signal.confidence),
             limit_price |->
                 IF ConfidenceBelow(signal.confidence, 80) THEN Some(price) ELSE None,
             stop_price |-> signal.stop_loss,
             kelly_sizing |-> kelly,
             signal |-> signal,
             requires_approval |-> RequiresApproval(kelly, signal.strength)]]

\* execute_order: the paper fill
ExecuteOrder(order) ==
    [symbol |-> order.symbol, action |-> order.action, quantity |-> order.quantity,
     filled_quantity |-> order.quantity,
     avg_fill_price |-> IF order.limit_price.present /\ order.limit_price.value.num # 0
                        THEN order.limit_price.value ELSE Whole(0),
     status |-> "filled"]

\* what run_learning() returns: (id, result)
LearningEvidence ==
    [agent_stats |-> EmptyDict, weight_changes |-> EmptyDict, current_regime |-> "unknown"]

-----------------------------------------------------------------------------
(* Initial state: create_initial_state(), or a caller's initial_state *)

Init ==
    /\ node = "run_data_gathering"
    /\ status = [p \in Tasks |-> "idle"]
    /\ returned = [p \in Tasks |-> NoResult]
    /\ agent_outputs = EmptyDict
    /\ current_step = "start"
    /\ vetoed = FALSE
    /\ veto_reason = None
    /\ aggregated_insight = None
    /\ alpha_signals = None
    /\ execution_orders = None
    /\ learning_insights = None
    /\ completed_at = None
    /\ errors \in {[i \in 1..n |-> "prior"] : n \in 0..MaxPriorErrors}
    /\ cache = None
    /\ pending_orders = <<>>
    /\ visited = <<>>
    /\ writers = [p \in Tasks |-> {}]
    /\ weighting_method = "equal"
    /\ agent_weights = EmptyDict
    /\ weight_settings = EmptyDict
    /\ call = "workflow"
    /\ risk_assessment = None
    /\ weight_changes = EmptyDict
    /\ calls = <<>>
    /\ args = None
    /\ answer = None

-----------------------------------------------------------------------------
(* Producers *)

\* a handler reaches its gather (or its await): every coroutine of the node starts
StartNode(n) ==
    /\ node = n
    /\ \A p \in Range(NodeAgents(n)) : status[p] = "idle"
    /\ status' = [p \in Tasks |-> IF p \in Range(NodeAgents(n)) THEN "running" ELSE status[p]]
    /\ current_step' = StepRunning(n)
    /\ UNCHANGED <<node, returned, agent_outputs, vetoed, veto_reason, aggregated_insight,
                   alpha_signals, execution_orders, learning_insights, completed_at,
                   errors, cache, pending_orders, visited, writers>>

StartPhase == \E n \in ParallelNodes \cup {"run_learning_execution"} : StartNode(n)

\* a wrapped producer coroutine returns
Settle(p, outcome) ==
    /\ status[p] = "running"
    /\ status' = [status EXCEPT ![p] = "settled"]
    /\ returned' = [returned EXCEPT ![p] = RunWrapped(outcome)]

FrameOfSettle ==
    UNCHANGED <<node, agent_outputs, current_step, vetoed, veto_reason, aggregated_insight,
                alpha_signals, execution_orders, learning_insights, completed_at, errors,
                cache, visited, writers>>

PhaseProducers == Range(DataGatheringAgents) \cup Range(AnalysisAgents) \cup Range(AlphaAgents)

ProducerSucceeds ==
    \E p \in PhaseProducers :
        Settle(p, Returns(Succeeded(p, EmptyDict))) /\ FrameOfSettle /\ UNCHANGED pending_orders

ProducerFails ==
    \E p \in PhaseProducers : Settle(p, Returns(Failed)) /\ FrameOfSettle /\ UNCHANGED pending_orders

ProducerRaises ==
    \E p \in PhaseProducers : Settle(p, Raises) /\ FrameOfSettle /\ UNCHANGED pending_orders

\* a producer never returns; nothing in the orchestrator ends the wait
ProducerHangs ==
    \E p \in Tasks :
        /\ status[p] = "running"
        /\ status' = [status EXCEPT ![p] = "hung"]
        /\ UNCHANGED returned /\ FrameOfSettle /\ UNCHANGED pending_orders
        /\ UNCHANGED componentVars

\* gather returned: the result loop and the returned delta of a parallel handler
EndPhase ==
    \E n \in ParallelNodes :
        /\ node = n
        /\ GatherDone(n)
        /\ agent_outputs' = DictOr(agent_outputs, PhaseOutputs(n))
        /\ current_step' = StepComplete(n)
        /\ errors' = ReturnedErrors(n, errors, PhaseErrorsUpTo(n, Len(NodeAgents(n))))
        /\ alpha_signals' = IF n = "run_alpha_agents" THEN Some(AlphaSignals) ELSE alpha_signals
        /\ node' = Edge(n, vetoed)
        /\ visited' = Append(visited, n)
        /\ writers' = Wrote(n, DOMAIN PhaseOutputs(n))
        /\ UNCHANGED <<status, returned, vetoed, veto_reason, aggregated_insight,
                       execution_orders, learning_insights, completed_at, cache,
                       pending_orders>>

-----------------------------------------------------------------------------
(* The risk gate *)

RiskStarts ==
    /\ node = "run_risk_agent"
    /\ status["risk"] = "idle"
    /\ status' = [status EXCEPT !["risk"] = "running"]
    /\ current_step' = StepRunning("run_risk_agent")
    /\ UNCHANGED <<node, returned, agent_outputs, vetoed, veto_reason, aggregated_insight,
                   alpha_signals, execution_orders, learning_insights, completed_at,
                   errors, cache, pending_orders, visited, writers>>

\* await agent.run() is over: the rest of the handler, then the conditional edge
RiskEnds(outcome) ==
    LET delta == RunRiskAgent(outcome, errors)
    IN  /\ node = "run_risk_agent"
        /\ status["risk"] = "running"
        /\ status' = [status EXCEPT !["risk"] = "settled"]
        /\ returned' = [returned EXCEPT !["risk"] =
                            IF outcome.kind = "raise" THEN ExceptionResult ELSE outcome.result]
        /\ agent_outputs' = DictOr(agent_outputs, Get(delta, "agent_outputs", EmptyDict))
        /\ vetoed' = Get(delta, "vetoed", vetoed)
        /\ veto_reason' = Get(delta, "veto_reason", veto_reason)
        /\ current_step' = Get(delta, "current_step", current_step)
        /\ errors' = Get(delta, "errors", errors)
        /\ node' = Edge("run_risk_agent", vetoed')
        /\ visited' = Append(visited, "run_risk_agent")
        /\ writers' = Wrote("run_risk_agent", DOMAIN Get(delta, "agent_outputs", EmptyDict))
        /\ UNCHANGED <<aggregated_insight, alpha_signals, execution_orders,
                       learning_insights, completed_at, cache, pending_orders>>

RiskSucceeds == \E sp \in RiskPredictions : RiskEnds(Returns(Succeeded("risk", sp)))
RiskFails == RiskEnds(Returns(Failed))
RiskRaises == RiskEnds(Raises)

-----------------------------------------------------------------------------
(* Aggregation *)

AggregationReturns ==
    \E synthesis \in Syntheses :
        LET insight == Aggregate(agent_outputs, WorkflowOrder(agent_outputs),
                                 RiskAssessmentOf(agent_outputs, vetoed, veto_reason),
                                 weighting_method, agent_weights, synthesis)
        IN  /\ node = "run_aggregation"
            /\ cache' = Some(CachedInsight(insight))
            /\ aggregated_insight' = Some(StateInsight(insight))
            /\ current_step' = "aggregation_complete"
            /\ node' = Edge("run_aggregation", vetoed)
            /\ visited' = Append(visited, "run_aggregation")
            /\ UNCHANGED <<status, returned, agent_outputs, vetoed, veto_reason,
                           alpha_signals, execution_orders, learning_insights,
                           completed_at, errors, pending_orders, writers>>

\* aggregate(), or the cache write, raises: the handler's except branch
AggregationRaises ==
    /\ node = "run_aggregation"
    /\ errors' = errors \o <<"Aggregation error">>
    /\ current_step' = "aggregation_failed"
    /\ node' = Edge("run_aggregation", vetoed)
    /\ visited' = Append(visited, "run_aggregation")
    /\ UNCHANGED <<status, returned, agent_outputs, vetoed, veto_reason, aggregated_insight,
                   alpha_signals, execution_orders, learning_insights, completed_at,
                   cache, pending_orders, writers>>

-----------------------------------------------------------------------------
(* Learning and execution *)

LearningSucceeds ==
    /\ Settle("learning", Returns(AgentResult(TRUE, Some(LearningEvidence), "")))
    /\ FrameOfSettle /\ UNCHANGED pending_orders

LearningFails ==
    /\ \E outcome \in {Returns(Failed), Raises} : Settle("learning", outcome)
    /\ FrameOfSettle /\ UNCHANGED pending_orders

\* build_prompt ran (no cached output): _pending_orders is set from the cached insight
ExecutionBuildsOrders ==
    /\ \E outcome \in {Returns(Succeeded("execution", EmptyDict)), Returns(Failed)} :
            Settle("execution", outcome)
    /\ pending_orders' =
          GenerateExecutionOrders(GenerateTradeSignals(cache, NoMarketData), NoMarketData)
    /\ FrameOfSettle

\* run() ended before build_prompt: a cached output, a disabled agent, or a raise
ExecutionSkipsOrders ==
    /\ \E outcome \in {Returns(Succeeded("execution", EmptyDict)), Returns(Failed), Raises} :
            Settle("execution", outcome)
    /\ FrameOfSettle /\ UNCHANGED pending_orders

\* the "learning_insights" and "execution_orders" the result loop computes
LearningInsightsOf(result) ==
    IF ~result.exception /\ result.success /\ result.output.present
    THEN result.output.value
    ELSE EmptyDict

\* the pending orders whatever the result
PendingOrdersOf(result, orders) == orders

ExecutionOrdersOf(result, orders) ==
    IF ~result.exception /\ result.success THEN orders ELSE <<>>

EndLearningExecution ==
    /\ node = "run_learning_execution"
    /\ GatherDone("run_learning_execution")
    /\ learning_insights' = Some(LearningInsightsOf(returned["learning"]))
    /\ execution_orders' = Some(ExecutionOrdersOf(returned["execution"], pending_orders))
    /\ current_step' = StepComplete("run_learning_execution")
    /\ errors' = AppendErrors(errors,
                    SelectSeq(<<returned["learning"], returned["execution"]>>,
                              LAMBDA r : r.exception))
    /\ node' = Edge("run_learning_execution", vetoed)
    /\ visited' = Append(visited, "run_learning_execution")
    /\ UNCHANGED <<status, returned, agent_outputs, vetoed, veto_reason, aggregated_insight,
                   alpha_signals, completed_at, cache, pending_orders, writers>>

-----------------------------------------------------------------------------
(* Finalize *)

Finalize ==
    /\ node = "finalize"
    /\ completed_at' = Some("now")
    /\ current_step' = "completed"
    /\ node' = Edge("finalize", vetoed)
    /\ visited' = Append(visited, "finalize")
    /\ UNCHANGED <<status, returned, agent_outputs, vetoed, veto_reason, aggregated_insight,
                   alpha_signals, execution_orders, learning_insights, errors, cache,
                   pending_orders, writers>>

-----------------------------------------------------------------------------

\* a step of a run in which every producer returns or raises
Settling ==
  /\ UNCHANGED componentVars
  /\
    \/ StartPhase
    \/ ProducerSucceeds
    \/ ProducerFails
    \/ ProducerRaises
    \/ EndPhase
    \/ RiskStarts
    \/ RiskSucceeds
    \/ RiskFails
    \/ RiskRaises
    \/ AggregationRaises
    \/ AggregationReturns
    \/ LearningSucceeds
    \/ LearningFails
    \/ ExecutionSkipsOrders
    \/ ExecutionBuildsOrders
    \/ EndLearningExecution
    \/ Finalize

Next == Settling \/ ProducerHangs

Spec == Init /\ [][Next]_vars

\* the runs in which every producer returns or raises; the event loop runs every
\* coroutine that can run
SettlingSpec == Init /\ [][Settling]_vars /\ WF_vars(Settling)

-----------------------------------------------------------------------------
(* A run that follows an earlier run: "aggregated:latest" is kept for an hour *)

\* the state after construction, with what the aggregation step of an earlier run stored
LaterRunInit ==
    /\ node = "run_data_gathering"
    /\ status = [p \in Tasks |-> "idle"]
    /\ returned = [p \in Tasks |-> NoResult]
    /\ agent_outputs = EmptyDict
    /\ current_step = "start"
    /\ vetoed = FALSE
    /\ veto_reason = None
    /\ aggregated_insight = None
    /\ alpha_signals = None
    /\ execution_orders = None
    /\ learning_insights = None
    /\ completed_at = None
    /\ errors = <<>>
    /\ cache = Some([overall_outlook |-> "bullish", confidence |-> [num |-> 80, den |-> 100],
                     resolution_reasoning |-> "synthesis",
                     final_recommendations |-> <<"recommendation">>, vetoed |-> FALSE])
    /\ pending_orders = <<>>
    /\ visited = <<>>
    /\ writers = [p \in Tasks |-> {}]
    /\ weighting_method = "equal"
    /\ agent_weights = EmptyDict
    /\ weight_settings = EmptyDict
    /\ call = "workflow"
    /\ risk_assessment = None
    /\ weight_changes = EmptyDict
    /\ calls = <<>>
    /\ args = None
    /\ answer = None

LaterRunSpec == LaterRunInit /\ [][Next]_vars

-----------------------------------------------------------------------------
(* The components called on their own, outside a workflow run *)

workflowVars == <<node, status, returned, current_step, vetoed, veto_reason,
                  aggregated_insight, alpha_signals, execution_orders, learning_insights,
                  completed_at, errors, visited, writers>>

\* no workflow run is in progress
NoRun ==
    /\ node = "END"
    /\ status = [p \in Tasks |-> "idle"]
    /\ returned = [p \in Tasks |-> NoResult]
    /\ current_step = "start"
    /\ vetoed = FALSE
    /\ veto_reason = None
    /\ aggregated_insight = None
    /\ alpha_signals = None
    /\ execution_orders = None
    /\ learning_insights = None
    /\ completed_at = None
    /\ errors = <<>>
    /\ visited = <<>>
    /\ writers = [p \in Tasks |-> {}]

\* one aggregate() call: the weights _get_agent_weights gave it and what it returned
AggregateCall(outputs, order, risk, synthesis) ==
    [outputs |-> outputs,
     order |-> order,
     weights |-> GetAgentWeights(DOMAIN ValidOutputs(outputs), weighting_method, agent_weights),
     synthesis |-> synthesis,
     insight |-> Aggregate(outputs, order, risk, weighting_method, agent_weights, synthesis)]

-----------------------------------------------------------------------------
(* The learning loop: learning cycles, then the next aggregation *)

\* the producers the cycles have predictions of
LearnedAgents == {"macro_economics", "technical"}

\* the stats of one producer, in hundredths
StatsInputs ==
    {[accuracy |-> 50, brier_score |-> 50, sharpe_contribution |-> 0],
     [accuracy |-> 70, brier_score |-> 20, sharpe_contribution |-> 150],
     [accuracy |-> 100, brier_score |-> 0, sharpe_contribution |-> 100000],
     [accuracy |-> 0, brier_score |-> 100, sharpe_contribution |-> -100000]}

WeightSettingsInputs ==
    {EmptyDict,
     [a \in {"technical"} |-> 2000],
     [a \in {"technical"} |-> 100],
     [a \in {"technical", "risk"} |-> IF a = "technical" THEN 1500 ELSE 5000]}

AgentWeightsInputs ==
    {EmptyDict,
     [a \in {"macro_economics", "technical"} |-> IF a = "technical" THEN 500 ELSE 2000]}

LearningInit ==
    /\ NoRun
    /\ call = "learning"
    /\ agent_outputs = [p \in LearnedAgents |-> Succeeded(p, EmptyDict)]
    /\ cache = None
    /\ pending_orders = <<>>
    /\ weighting_method \in {"equal", "performance"}
    /\ agent_weights \in AgentWeightsInputs
    /\ weight_settings \in WeightSettingsInputs
    /\ risk_assessment = None
    /\ weight_changes = EmptyDict
    /\ calls = <<>>
    /\ args = None
    /\ answer = None

\* run_learning(): the cycle computes weight_changes; a non-empty one is applied
LearningCycle ==
    \E outcome_counts \in [LearnedAgents ->
                               {0, MinPredictions - 1, MinPredictions, MinPredictions + 1}],
       stats \in [LearnedAgents -> StatsInputs] :
        /\ call \in {"learning", "applied"}
        /\ args' = outcome_counts
        /\ weight_changes' = CalculateWeightAdjustments(CalculateAgentStats(outcome_counts, stats),
                                                        CurrentWeights(weight_settings))
        /\ weight_settings' =
              IF weight_changes' # EmptyDict
              THEN ApplyWeightAdjustments(weight_settings, weight_changes')
              ELSE weight_settings
        /\ call' = "applied"
        /\ UNCHANGED <<workflowVars, answer, agent_outputs, cache, pending_orders, weighting_method,
                       agent_weights, risk_assessment, calls>>

\* the aggregation of the next run
NextAggregation ==
    \E synthesis \in Syntheses :
        /\ call = "applied"
        /\ calls' = Append(calls, AggregateCall(agent_outputs, WorkflowOrder(agent_outputs),
                                                risk_assessment, synthesis))
        /\ call' = "aggregated"
        /\ UNCHANGED <<workflowVars, args, answer, agent_outputs, cache, pending_orders, weighting_method,
                       agent_weights, weight_settings, risk_assessment, weight_changes>>

LearningSpec == LearningInit /\ [][LearningCycle \/ NextAggregation]_vars

-----------------------------------------------------------------------------
(* The aggregation engine: aggregate() called twice on the same agent_outputs *)

SucceededWith(outlook, confidence) ==
    AgentResult(TRUE, Some([outlook |-> outlook, confidence |-> confidence,
                            specific_predictions |-> EmptyDict]), "")

\* the agent_outputs of the calls: three producers, failed, absent or with a forecast
EngineOutputs ==
    {EmptyDict} \cup
    {[p \in {"macro_economics", "technical"} \cup more |->
        IF p = "macro_economics" THEN a ELSE IF p = "technical" THEN b ELSE c] :
        a \in {Failed, SucceededWith("bullish", 80), SucceededWith("bullish", 0),
               SucceededWith("bearish", 60)},
        b \in {Failed, SucceededWith("bearish", 60), SucceededWith("bullish", 80),
               SucceededWith("neutral", 50)},
        c \in {SucceededWith("bearish", 60), SucceededWith("bullish", 80)},
        more \in {{}, {"sentiment"}}}

RiskAssessmentInputs ==
    {None,
     Some([approved |-> FALSE, veto_reason |-> Some("Portfolio risk too high")])}

\* the orders in which a dict can hold the keys ids
Orders(ids) ==
    {o \in [1..Cardinality(ids) -> ids] : \A i, j \in DOMAIN o : o[i] = o[j] => i = j}

EngineInit ==
    /\ NoRun
    /\ call = "aggregate"
    /\ agent_outputs \in EngineOutputs
    /\ cache = None
    /\ pending_orders = <<>>
    /\ weighting_method \in {"equal", "performance"}
    /\ agent_weights \in AgentWeightsInputs
    /\ weight_settings = EmptyDict
    /\ risk_assessment \in RiskAssessmentInputs
    /\ weight_changes = EmptyDict
    /\ calls = <<>>
    /\ args = None
    /\ answer = None

\* aggregate() returns an insight
EngineAggregates ==
    \E order \in Orders(DOMAIN agent_outputs), synthesis \in Syntheses :
        /\ call \in {"aggregate", "aggregate again"}
        /\ calls' = Append(calls, AggregateCall(agent_outputs, order, risk_assessment, synthesis))
        /\ call' = IF call = "aggregate" THEN "aggregate again" ELSE "done"
        /\ UNCHANGED <<workflowVars, args, answer, agent_outputs, cache, pending_orders, weighting_method,
                       agent_weights, weight_settings, risk_assessment, weight_changes>>

\* the synthesis answer is JSON but not an object: synthesis.get raises out of aggregate()
EngineRaises ==
    /\ call \in {"aggregate", "aggregate again"}
    /\ DOMAIN ValidOutputs(agent_outputs) # {}
    /\ call' = "raised"
    /\ UNCHANGED <<workflowVars, args, answer, agent_outputs, cache, pending_orders, weighting_method,
                   agent_weights, weight_settings, risk_assessment, weight_changes, calls>>

EngineSpec == EngineInit /\ [][EngineAggregates \/ EngineRaises]_vars

-----------------------------------------------------------------------------
(* The aggregation engine on forecasts whose buckets tie *)

TieInit ==
    /\ NoRun
    /\ call = "aggregate"
    /\ agent_outputs \in [{"macro_economics", "technical", "sentiment"} ->
                             {Failed} \cup {SucceededWith(o, c) : o \in Outlooks, c \in {0, 60}}]
    /\ cache = None
    /\ pending_orders = <<>>
    /\ weighting_method \in {"equal", "performance"}
    /\ agent_weights = EmptyDict
    /\ weight_settings = EmptyDict
    /\ risk_assessment = None
    /\ weight_changes = EmptyDict
    /\ calls = <<>>
    /\ args = None
    /\ answer = None

\* aggregate() returns an insight
TieAggregates ==
    \E synthesis \in Syntheses :
        /\ call = "aggregate"
        /\ calls' = Append(calls, AggregateCall(agent_outputs, WorkflowOrder(agent_outputs),
                                                risk_assessment, synthesis))
        /\ call' = "done"
        /\ UNCHANGED <<workflowVars, args, answer, agent_outputs, cache, pending_orders,
                       weighting_method, agent_weights, weight_settings, risk_assessment,
                       weight_changes>>

TieSpec == TieInit /\ [][TieAggregates]_vars

-----------------------------------------------------------------------------
(* The position sizer: the execution agent builds its orders from the cached insight *)

\* the insights the key "aggregated:latest" can hold, confidence in hundredths
CachedInsightInputs ==
    {None} \cup
    {Some([overall_outlook |-> o, confidence |-> [num |-> c, den |-> 100],
           resolution_reasoning |-> "synthesis", final_recommendations |-> <<>>,
           vetoed |-> v]) :
        o \in Outlooks, c \in {0, 50, 59, 60, 65, 69, 70, 79, 80, 90, 100}, v \in BOOLEAN}

\* what fetch_data can have found for the two symbols the sizer trades
MarketDataInputs ==
    {NoMarketData,
     [market_prices |-> [y \in {"SPY", "QQQ"} |-> IF y = "SPY" THEN Whole(475) ELSE Whole(400)],
      volatility |-> [y \in {"SPY"} |-> Rat(1, 100)],
      historical_accuracy |-> EmptyDict],
     [market_prices |-> [y \in {"SPY", "QQQ"} |-> IF y = "SPY" THEN Whole(475) ELSE Whole(400)],
      volatility |-> [y \in {"SPY"} |-> Whole(0)],
      historical_accuracy |-> [y \in {"SPY"} |-> Rat(55, 100)]],
     [market_prices |-> [y \in {"SPY", "QQQ"} |-> Whole(0)],
      volatility |-> EmptyDict,
      historical_accuracy |-> EmptyDict]}

SizerInit ==
    /\ NoRun
    /\ call = "size"
    /\ agent_outputs = EmptyDict
    /\ cache \in CachedInsightInputs
    /\ pending_orders = <<>>
    /\ weighting_method = "equal"
    /\ agent_weights = EmptyDict
    /\ weight_settings = EmptyDict
    /\ risk_assessment = None
    /\ weight_changes = EmptyDict
    /\ calls = <<>>
    /\ args \in MarketDataInputs
    /\ answer = None

\* build_prompt: generate_trade_signals, generate_execution_orders, _pending_orders
SizerBuildsOrders ==
    /\ call = "size"
    /\ pending_orders' = GenerateExecutionOrders(GenerateTradeSignals(cache, args), args)
    /\ call' = "sized"
    /\ UNCHANGED <<workflowVars, args, answer, agent_outputs, cache, weighting_method, agent_weights,
                   weight_settings, risk_assessment, weight_changes, calls>>

\* execute_order(order) for one of the pending orders
SizerExecutesOrder ==
    \E i \in DOMAIN pending_orders :
        /\ call = "sized"
        /\ answer' = Some(ExecuteOrder(pending_orders[i]))
        /\ call' = "executed"
        /\ UNCHANGED <<workflowVars, args, agent_outputs, cache, pending_orders,
                       weighting_method, agent_weights, weight_settings, risk_assessment,
                       weight_changes, calls>>

SizerSpec == SizerInit /\ [][SizerBuildsOrders \/ SizerExecutesOrder]_vars

-----------------------------------------------------------------------------
(* calculate_kelly_position called on its own *)

KellyInit ==
    /\ NoRun
    /\ call = "kelly"
    /\ agent_outputs = EmptyDict
    /\ cache = None
    /\ pending_orders = <<>>
    /\ weighting_method = "equal"
    /\ agent_weights = EmptyDict
    /\ weight_settings = EmptyDict
    /\ risk_assessment = None
    /\ weight_changes = EmptyDict
    /\ calls = <<>>
    /\ args \in
          [win_probability : {Rat(0, 1), Rat(2, 5), Rat(1, 2), Rat(3, 5), Rat(4, 5), Rat(1, 1)},
           expected_win_pct : {Rat(0, 1), Rat(3, 100), Rat(5, 100), Rat(10, 100)},
           expected_loss_pct : {Rat(0, 1), Rat(3, 100), Rat(5, 100)},
           current_price : {Whole(-1), Whole(0), Whole(7), Whole(475), Rat(40025, 100)}]
    /\ answer = None

KellyReturns ==
    /\ call = "kelly"
    /\ answer' = Some(CalculateKellyPosition("SPY", args.win_probability, args.expected_win_pct,
                                             args.expected_loss_pct, args.current_price))
    /\ call' = "returned"
    /\ UNCHANGED <<workflowVars, args, agent_outputs, cache, pending_orders,
                   weighting_method, agent_weights, weight_settings, risk_assessment,
                   weight_changes, calls>>

KellySpec == KellyInit /\ [][KellyReturns]_vars

-----------------------------------------------------------------------------
(* _attribute_outcomes called on its own, on the day Today *)

Today == 7

\* the daily returns fetch_data computed: none, or one for each of the days 1..Today
ReturnSeries ==
    {EmptyDict,
     [day \in 1..Today |-> 0],
     [day \in 1..Today |-> IF day \in {3, 4} THEN 10 ELSE 0],
     [day \in 1..Today |-> IF day = 2 THEN -30 ELSE 0],
     [day \in 1..Today |-> IF day = 2 THEN 10 ELSE IF day = 3 THEN -10 ELSE 0],
     [day \in 1..Today |-> IF day = 7 THEN 4 ELSE 0],
     [day \in 1..Today |-> IF day = 5 THEN -7 ELSE 0]}

AttributionInit ==
    /\ NoRun
    /\ call = "attribute"
    /\ agent_outputs = EmptyDict
    /\ cache = None
    /\ pending_orders = <<>>
    /\ weighting_method = "equal"
    /\ agent_weights = EmptyDict
    /\ weight_settings = EmptyDict
    /\ risk_assessment = None
    /\ weight_changes = EmptyDict
    /\ calls = <<>>
    /\ args \in
          [predictions :
              {<<pred>> : pred \in [id : {1}, agent_id : {"technical"}, timestamp : 0..Today,
                                    outlook : Outlooks, confidence : {0, 50, 80},
                                    timeframe : {"1week", "1month", "1year"}]},
           market_returns : ReturnSeries]
    /\ answer = None

AttributionReturns ==
    /\ call = "attribute"
    /\ answer' = Some(AttributeOutcomes(args.predictions, args.market_returns))
    /\ call' = "attributed"
    /\ UNCHANGED <<workflowVars, args, agent_outputs, cache, pending_orders,
                   weighting_method, agent_weights, weight_settings, risk_assessment,
                   weight_changes, calls>>

AttributionSpec == AttributionInit /\ [][AttributionReturns]_vars

-----------------------------------------------------------------------------
(* Shorthands of the properties *)

Completed == node = "END" /\ current_step = "completed" /\ completed_at.present

\* producer p's run() failed: it returned success = false, or it raised
ProducerFailed(p) == status[p] = "settled" /\ ~returned[p].success

RiskSucceeded ==
    /\ status["risk"] = "settled"
    /\ returned["risk"].success
    /\ returned["risk"].output.present

ReportedRisk == returned["risk"].output.value.specific_predictions

Count(seq, x) == Cardinality({i \in DOMAIN seq : seq[i] = x})

Ran(n) == n \in Range(visited)

-----------------------------------------------------------------------------
(* C1 *)

\* grows with every step of a run, and is at most 7 + 2 * 12
Progress ==
    Len(visited) + Cardinality({p \in Tasks : status[p] # "idle"})
    + Cardinality({p \in Tasks : status[p] = "settled"})

\* C1: every run in which each producer returns or raises, whichever of them fail and
\* whether or not the risk gate vetoes, reaches the end of the graph through finalize,
\* with current_step = "completed" and completed_at set: a run that has not ended can
\* always take a step, every step makes progress, and a run ends only after finalize,
\* completed.
C1_RunCompletes ==
    /\ [](node # "END" => ENABLED Settling)
    /\ [][Progress' > Progress]_vars
    /\ [](node = "END" => Completed /\ visited[Len(visited)] = "finalize")

C1_Witness ==
    /\ Completed
    /\ \E p \in PhaseProducers : ProducerFailed(p)
    /\ returned["risk"].exception
    /\ errors # <<>>

-----------------------------------------------------------------------------
(* C2 *)

\* the nodes that returned after the risk gate, in order
AfterRisk ==
    LET k == CHOOSE i \in DOMAIN visited : visited[i] = "run_risk_agent"
    IN  SubSeq(visited, k + 1, Len(visited))

\* C2: once the risk gate has returned, vetoed alone decides what follows: with
\* vetoed = true only finalize runs (no aggregation, no learning or execution producer
\* ever starts); with vetoed = false the steps that run are aggregation, learning and
\* execution, finalize, in that order.
C2_VetoDecidesNextStep ==
    Ran("run_risk_agent") =>
        IF vetoed
        THEN /\ node \in {"finalize", "END"}
             /\ IsPrefix(AfterRisk, <<"finalize">>)
             /\ status["learning"] = "idle" /\ status["execution"] = "idle"
             /\ ~aggregated_insight.present
             /\ node = "END" => AfterRisk = <<"finalize">>
        ELSE /\ IsPrefix(AfterRisk, <<"run_aggregation", "run_learning_execution", "finalize">>)
             /\ node = IF Len(AfterRisk) = 0 THEN "run_aggregation"
                       ELSE Edge(AfterRisk[Len(AfterRisk)], FALSE)

C2_Witness == vetoed /\ node = "END" /\ visited[Len(visited)] = "finalize"

-----------------------------------------------------------------------------
(* C3 *)

\* C3: when the risk producer succeeds, vetoed is true exactly when the reported
\* portfolio_risk is above 0.8 or some reported position risk is above 0.9; a missing
\* portfolio_risk and a missing or empty position_risks count as 0.
C3_VetoRule ==
    RiskSucceeded =>
        LET portfolio_risk ==
                IF "portfolio_risk" \in DOMAIN ReportedRisk THEN ReportedRisk["portfolio_risk"] ELSE 0
            position_risks ==
                IF "position_risks" \in DOMAIN ReportedRisk
                THEN Range(ReportedRisk["position_risks"]) ELSE {}
        IN  vetoed <=> (portfolio_risk > 80 \/ \E r \in position_risks : r > 90)

\* the risk producer reports both risks exactly at their limits, and the run goes on
C3_Witness ==
    /\ RiskSucceeded
    /\ "portfolio_risk" \in DOMAIN ReportedRisk /\ ReportedRisk["portfolio_risk"] = 80
    /\ "position_risks" \in DOMAIN ReportedRisk
    /\ Range(ReportedRisk["position_risks"]) = {90}
    /\ ~vetoed

-----------------------------------------------------------------------------
(* C4 *)

\* C4: a run whose risk producer reports portfolio_risk = 0.85 ends with vetoed = true
\* and with execution_orders the empty list.
C4_VetoedRunHasEmptyOrderList ==
    (/\ node = "END"
     /\ RiskSucceeded
     /\ "portfolio_risk" \in DOMAIN ReportedRisk
     /\ ReportedRisk["portfolio_risk"] = 85)
    => (vetoed /\ execution_orders.present /\ execution_orders.value = <<>>)

-----------------------------------------------------------------------------
(* C5 *)

\* C5: once the risk gate has returned for a risk producer that failed (it raised, or it
\* returned success = false), vetoed is false and errors holds an entry the risk gate
\* added for the failure.
C5_RiskFailureRecorded ==
    (Ran("run_risk_agent") /\ ~RiskSucceeded)
    => (~vetoed /\ Count(errors, "Risk agent error") >= 1)

-----------------------------------------------------------------------------
(* C6 *)

InFlight(p) == status[p] \in {"running", "hung"}

\* C6: a producer of a later step has started only if every producer of every earlier
\* step has settled, and two producers of different steps are never in flight together.
C6_PhaseBarrier ==
    \A n, m \in ProducerNodes :
        NodeOrder(n) < NodeOrder(m) =>
            \A p \in Range(NodeAgents(n)), q \in Range(NodeAgents(m)) :
                /\ status[q] # "idle" => status[p] = "settled"
                /\ ~(InFlight(p) /\ InFlight(q))

C6_Witness ==
    /\ status["risk"] = "running"
    /\ \E p \in PhaseProducers : ProducerFailed(p)
    /\ \A p \in PhaseProducers : status[p] = "settled"

-----------------------------------------------------------------------------
(* C7 *)

\* C7: when a parallel phase has returned, whichever of its three producers failed or
\* raised, all three have run to completion, each has its result in agent_outputs, a
\* failing producer's result has success = false, and errors holds exactly one entry
\* for each failing producer and none for the others.
C7_FailuresAreIsolated ==
    \A n \in ParallelNodes :
        Ran(n) =>
            \A p \in Range(NodeAgents(n)) :
                /\ status[p] = "settled"
                /\ p \in DOMAIN agent_outputs
                /\ agent_outputs[p].success = returned[p].success
                /\ Count(errors, p) = IF returned[p].success THEN 0 ELSE 1

C7_Witness ==
    /\ Ran("run_alpha_agents")
    /\ \A n \in ParallelNodes :
          \E p, q \in Range(NodeAgents(n)) : ProducerFailed(p) /\ returned[q].success

-----------------------------------------------------------------------------
(* C8 *)

\* C8: a producer that never returns is timed out and treated as failed, so a run with a
\* hung producer is never stuck before the end of the graph.
C8_HangDoesNotStall ==
    (node # "END" /\ \E p \in Tasks : status[p] = "hung") => ENABLED Next

-----------------------------------------------------------------------------
(* C9 *)

\* C9: every entry of agent_outputs was written by one step, the one that runs its
\* producer, and no step changes or removes an entry that is there.
C9_MergeOnly ==
    /\ [](\A p \in DOMAIN agent_outputs : writers[p] = {NodeOf(p)})
    /\ [][\A p \in DOMAIN agent_outputs :
            p \in DOMAIN agent_outputs' /\ agent_outputs'[p] = agent_outputs[p]]_vars

C9_Witness ==
    /\ node = "END"
    /\ DOMAIN agent_outputs = Range(ProducerIds)

-----------------------------------------------------------------------------
(* C10 *)

\* C10: from any initial state, every step leaves the errors list it found as a prefix
\* of the errors list it leaves.
C10_ErrorsAppendOnly == [][IsPrefix(errors, errors')]_vars

-----------------------------------------------------------------------------
(* C11 *)

LastCall == calls[Len(calls)]

\* C11: after a learning cycle has computed and applied the new weight of a producer, the
\* next aggregation reads that weight as the producer's weight.
C11_NextAggregationReadsNewWeights ==
    call = "aggregated" =>
        \A p \in DOMAIN weight_changes \cap DOMAIN LastCall.weights :
            LastCall.weights[p] = weight_changes[p]

-----------------------------------------------------------------------------
(* C12 *)

\* C12: whatever the current weights and the stats of the cycles so far, every cycle
\* gives each producer it has stats of a new weight, and that weight is in [0.1, 2.0].
C12_WeightsStayInBounds ==
    call = "applied" =>
        /\ DOMAIN weight_changes = {p \in LearnedAgents : args[p] >= 10}
        /\ \A p \in DOMAIN weight_changes :
              weight_changes[p] >= 100 /\ weight_changes[p] <= 2000

\* one weight clamped at each bound: 1.0 * (1 + 3.035) and 1.0 * (1 - 3.035)
C12_Witness ==
    /\ call = "applied"
    /\ DOMAIN weight_changes = LearnedAgents
    /\ weight_changes["technical"] = 2000
    /\ weight_changes["macro_economics"] = 100

-----------------------------------------------------------------------------
(* C13 *)

\* the weight on record for producer p, 1.0 if there is none
RecordedWeight(p) ==
    IF weighting_method = "equal" THEN 1000 ELSE Get(agent_weights, p, 1000)

\* the successful producers of a call whose outlook is o
Bucket(v, o) == {p \in DOMAIN v : v[p].outlook = o}

\* the sum of weight x confidence over the producers S
RECURSIVE BucketSum(_, _)
BucketSum(v, S) ==
    IF S = {} THEN 0
    ELSE LET p == CHOOSE x \in S : TRUE
         IN  RecordedWeight(p) * v[p].confidence + BucketSum(v, S \ {p})

\* C13: for every call with at least one successful forecast, no bucket has a larger sum
\* of weight x confidence than the consensus outlook's bucket, and the confidence is that
\* bucket's sum over the total of the three sums (0 when the total is 0), a producer
\* without a weight on record counting with weight 1.0.
C13_WeightedConsensus ==
    \A i \in DOMAIN calls :
        LET v == ValidOutputs(calls[i].outputs)
            won == calls[i].insight.overall_outlook
            conf == calls[i].insight.confidence
        IN  DOMAIN v # {} =>
                /\ \A o \in Outlooks :
                      BucketSum(v, Bucket(v, won)) >= BucketSum(v, Bucket(v, o))
                /\ IF BucketSum(v, DOMAIN v) > 0
                   THEN conf = [num |-> BucketSum(v, Bucket(v, won)),
                                den |-> BucketSum(v, DOMAIN v)]
                   ELSE conf.num = 0

\* A bullish 0.8 and B bearish 0.6 at weight 1.0: bullish, 0.8 / 1.4
C13_Witness ==
    /\ weighting_method = "equal"
    /\ \E i \in DOMAIN calls :
          /\ calls[i].outputs = [p \in {"macro_economics", "technical"} |->
                                    IF p = "macro_economics"
                                    THEN SucceededWith("bullish", 80)
                                    ELSE SucceededWith("bearish", 60)]
          /\ calls[i].insight.overall_outlook = "bullish"
          /\ calls[i].insight.confidence.num * 140 = 80 * calls[i].insight.confidence.den

-----------------------------------------------------------------------------
(* C14 *)

\* C14: for every call with at least one successful forecast, the three normalized
\* outlook scores the winner is chosen from sum to 1.
C14_NormalizedScoresSumToOne ==
    \A i \in DOMAIN calls :
        LET v == ValidOutputs(calls[i].outputs)
            w == calls[i].weights
        IN  DOMAIN v # {} =>
                NormalizedScore(v, w, "bearish").num + NormalizedScore(v, w, "neutral").num
                + NormalizedScore(v, w, "bullish").num
                = NormalizedScore(v, w, "bearish").den

-----------------------------------------------------------------------------
(* C15 *)

\* C15: the conflicts of every insight are one entry naming the bearish and the bullish
\* producers when there is at least one of each among the successful ones, and empty
\* otherwise; the outlook and the confidence are those of the weighted consensus.
C15_OneConflictEntry ==
    \A i \in DOMAIN calls :
        LET v == ValidOutputs(calls[i].outputs)
            insight == calls[i].insight
        IN  /\ IF Bucket(v, "bearish") # {} /\ Bucket(v, "bullish") # {}
               THEN /\ Len(insight.conflicts) = 1
                    /\ Range(insight.conflicts[1].bearish) = Bucket(v, "bearish")
                    /\ Range(insight.conflicts[1].bullish) = Bucket(v, "bullish")
               ELSE insight.conflicts = <<>>
            /\ DOMAIN v # {} =>
                  /\ insight.overall_outlook = WinningOutlook(v, calls[i].weights)
                  /\ insight.confidence = WinningConfidence(v, calls[i].weights)

\* an entry naming two bearish producers and a bullish one
C15_Witness ==
    \E i \in DOMAIN calls :
        /\ Len(calls[i].insight.conflicts) = 1
        /\ Len(calls[i].insight.conflicts[1].bearish) = 2
        /\ Len(calls[i].insight.conflicts[1].bullish) = 1

-----------------------------------------------------------------------------
(* C16 *)

\* C16: when no entry of agent_outputs is a successful result with an output, aggregate
\* does not raise and returns the neutral insight: confidence 0, no conflicts, no
\* recommendations, a non-empty reasoning.
C16_EmptyInsight ==
    DOMAIN ValidOutputs(agent_outputs) = {} =>
        /\ call # "raised"
        /\ \A i \in DOMAIN calls :
              /\ calls[i].insight.overall_outlook = "neutral"
              /\ calls[i].insight.confidence.num = 0
              /\ calls[i].insight.conflicts = <<>>
              /\ calls[i].insight.final_recommendations = <<>>
              /\ calls[i].insight.resolution_reasoning # ""

\* both calls made, on an agent_outputs whose producers all failed
C16_Witness ==
    /\ Len(calls) = 2
    /\ DOMAIN agent_outputs = {"macro_economics", "technical"}
    /\ \A p \in DOMAIN agent_outputs : ~agent_outputs[p].success

-----------------------------------------------------------------------------
(* C17 *)

\* C17: a run in which the risk gate set vetoed ends with an aggregated insight, and that
\* insight is vetoed.
C17_VetoedRunHasVetoedInsight ==
    (node = "END" /\ vetoed) =>
        (aggregated_insight.present /\ aggregated_insight.value.vetoed)

-----------------------------------------------------------------------------
(* C18 *)

\* C18: aggregate never raises, and when the synthesis failed or was unavailable the
\* insight has the weighted consensus' outlook, confidence and conflicts, no
\* recommendations and a non-empty reasoning.
C18_DegradedSynthesis ==
    /\ call # "raised"
    /\ \A i \in DOMAIN calls :
          LET v == ValidOutputs(calls[i].outputs)
              insight == calls[i].insight
          IN  (DOMAIN v # {} /\ calls[i].synthesis.reasoning # "synthesis") =>
                  /\ insight.overall_outlook = WinningOutlook(v, calls[i].weights)
                  /\ insight.confidence = WinningConfidence(v, calls[i].weights)
                  /\ insight.conflicts = Conflicts(v, calls[i].weights, calls[i].order)
                  /\ insight.final_recommendations = <<>>
                  /\ insight.resolution_reasoning # ""

-----------------------------------------------------------------------------
(* C19 *)

\* C19: two calls with the same producer results and the same weights return the same
\* outlook, the same confidence and the same conflicts, whatever the insertion orders.
C19_SameNumericOutput ==
    Len(calls) = 2 =>
        /\ calls[1].insight.overall_outlook = calls[2].insight.overall_outlook
        /\ calls[1].insight.confidence = calls[2].insight.confidence
        /\ calls[1].insight.conflicts = calls[2].insight.conflicts

-----------------------------------------------------------------------------
(* C20 *)

\* C20: the position sizer emits no signal and no order when the insight it read is
\* vetoed or has confidence below 0.6; it emits an order only for an insight that is not
\* vetoed and has confidence at least 0.6.
C20_NoOrdersWhenVetoedOrUnsure ==
    (call = "sized" /\ cache.present) =>
        /\ (cache.value.vetoed \/ cache.value.confidence.num < 60) =>
              (GenerateTradeSignals(cache, args) = <<>> /\ pending_orders = <<>>)
        /\ pending_orders # <<>> =>
              (~cache.value.vetoed /\ cache.value.confidence.num >= 60)

-----------------------------------------------------------------------------
(* C21 *)

\* C21: calculate_kelly_position returns kelly_fraction = clamp((p*b - q)/b, 0, 1), here
\* as clamp(p - q/b, 0, 1), with q = 1 - p and b = win/loss (b = 1 when the loss is zero;
\* 0 when b is 0, where the quotient has no value), recommended_fraction =
\* min(kelly_fraction * 0.5, 0.25), position_size_dollars = recommended_fraction *
\* portfolio_value, and position_size_shares = floor(dollars / price), or 0 when
\* price <= 0; so recommended_fraction never exceeds max_position_pct.
C21_KellyPosition ==
    (call = "returned") =>
        LET p == args.win_probability
            q == Minus(Whole(1), p)
            b == IF args.expected_loss_pct.num = 0 THEN Whole(1)
                 ELSE Over(args.expected_win_pct, args.expected_loss_pct)
            k == answer.value.kelly_fraction
            f == answer.value.recommended_fraction
            dollars == answer.value.position_size_dollars
            shares == answer.value.position_size_shares
            price == args.current_price
        IN  /\ b.num # 0 =>
                  LET x == Minus(p, Over(q, b))
                  IN  k = (IF Less(x, Whole(0)) THEN Whole(0)
                           ELSE IF Less(Whole(1), x) THEN Whole(1) ELSE x)
            /\ b.num = 0 => k = Whole(0)
            /\ f = (IF Less(Times(k, Rat(1, 2)), Rat(1, 4)) THEN Times(k, Rat(1, 2)) ELSE Rat(1, 4))
            /\ ~Less(MaxPositionPct, f)
            /\ dollars = Times(f, Whole(PortfolioValue))
            /\ price.num > 0 =>
                  /\ ~Less(dollars, Times(Whole(shares), price))
                  /\ Less(dollars, Times(Whole(shares + 1), price))
            /\ price.num <= 0 => shares = 0

\* p = 0.6, win 0.05, loss 0.03 at a price of 475: 0.36, 0.18, 18000 dollars, 37 shares
C21_Witness ==
    /\ call = "returned"
    /\ args.win_probability = Rat(3, 5)
    /\ args.expected_win_pct = Rat(5, 100)
    /\ args.expected_loss_pct = Rat(3, 100)
    /\ args.current_price = Whole(475)
    /\ answer.value.kelly_fraction = Rat(36, 100)
    /\ answer.value.recommended_fraction = Rat(18, 100)
    /\ answer.value.position_size_dollars = Whole(18000)
    /\ answer.value.position_size_shares = 37

-----------------------------------------------------------------------------
(* C22 *)

\* C22: every emitted order has requires_approval = true exactly when its recommended
\* fraction exceeds 0.15, or its edge is below 0.02, or its signal strength is strong_buy
\* or strong_sell; every signal becomes an order, and execute_order fills an order in
\* full whatever its flag says.
C22_ApprovalIsSurfacedOnly ==
    (call \in {"sized", "executed"}) =>
        /\ Len(pending_orders) = Len(GenerateTradeSignals(cache, args))
        /\ \A i \in DOMAIN pending_orders :
              LET order == pending_orders[i]
                  f == order.kelly_sizing.recommended_fraction
                  edge == order.kelly_sizing.edge
              IN  order.requires_approval <=>
                      \/ f.num * 100 > 15 * f.den
                      \/ edge.num * 100 < 2 * edge.den
                      \/ order.signal.strength \in {"strong_buy", "strong_sell"}
        /\ call = "executed" =>
              \E i \in DOMAIN pending_orders :
                  /\ answer.value.symbol = pending_orders[i].symbol
                  /\ answer.value.status = "filled"
                  /\ answer.value.filled_quantity = pending_orders[i].quantity

\* an order that needs approval has been executed, next to one that needs none
C22_Witness ==
    /\ call = "executed"
    /\ \E i \in DOMAIN pending_orders :
          /\ pending_orders[i].requires_approval
          /\ answer.value.symbol = pending_orders[i].symbol
          /\ answer.value.status = "filled"
    /\ \E j \in DOMAIN pending_orders : ~pending_orders[j].requires_approval

-----------------------------------------------------------------------------
(* C23 *)

\* C23: whenever the consensus confidence is below 0.8, every order the sizer emits
\* (primary and secondary) is a limit order with a limit price set; a market order is
\* emitted only when the consensus confidence is at least 0.8.
C23_LimitOrdersBelowThreshold ==
    (call \in {"sized", "executed"} /\ cache.present) =>
        LET confidence == cache.value.confidence
        IN  /\ confidence.num * 10 < 8 * confidence.den =>
                  \A i \in DOMAIN pending_orders :
                      /\ pending_orders[i].order_type = "limit"
                      /\ pending_orders[i].limit_price.present
            /\ \A i \in DOMAIN pending_orders :
                  pending_orders[i].order_type = "market" =>
                      /\ confidence.num * 10 >= 8 * confidence.den
                      /\ ~pending_orders[i].limit_price.present

\* a consensus of 0.79 gives a primary and a secondary limit order at the market prices
C23_Witness ==
    /\ call = "sized"
    /\ cache.present
    /\ cache.value.confidence = [num |-> 79, den |-> 100]
    /\ Len(pending_orders) = 2
    /\ \A i \in DOMAIN pending_orders : pending_orders[i].order_type = "limit"
    /\ pending_orders[1].limit_price = Some(Whole(475))
    /\ pending_orders[2].limit_price = Some(Whole(400))

-----------------------------------------------------------------------------
(* C24 *)

\* C24: for every attributed forecast, was_correct is true exactly when (outlook bullish
\* and actual_return > 0) or (outlook bearish and actual_return < 0) or (outlook neutral
\* and |actual_return| < 0.02); attribution_score is confidence x |actual_return| x 100,
\* negated exactly when was_correct is false; and a forecast whose cumulative forward
\* return is zero produces no outcome record.
C24_OutcomeAttribution ==
    (call = "attributed") =>
        LET pred == args.predictions[1]
            sum == CumulativeReturn(pred, args.market_returns)
            outcomes == answer.value
        IN  /\ sum = 0 <=> outcomes = <<>>
            /\ sum # 0 =>
                  /\ Len(outcomes) = 1
                  /\ outcomes[1].actual_return = sum
                  /\ outcomes[1].was_correct <=>
                          \/ pred.outlook = "bullish" /\ sum > 0
                          \/ pred.outlook = "bearish" /\ sum < 0
                          \/ pred.outlook = "neutral" /\ sum < 20 /\ sum > -20
                  /\ outcomes[1].was_correct =>
                          outcomes[1].attribution_score = pred.confidence * Abs(sum)
                  /\ ~outcomes[1].was_correct =>
                          outcomes[1].attribution_score = 0 - pred.confidence * Abs(sum)

\* a neutral forecast with confidence 0.8 and a return of exactly 0.02 is scored wrong
C24_Witness ==
    /\ call = "attributed"
    /\ args.predictions[1].outlook = "neutral"
    /\ args.predictions[1].confidence = 80
    /\ Len(answer.value) = 1
    /\ answer.value[1].actual_return = 20
    /\ ~answer.value[1].was_correct
    /\ answer.value[1].attribution_score = -1600

-----------------------------------------------------------------------------
(* C26 *)

\* C26: outcome attribution scores only forecasts older than their declared timeframe:
\* a forecast whose forward window (5, 21, 63 or 252 days) has not fully elapsed on the
\* day of the attribution produces no outcome record.
C26_OnlyElapsedForecastsScored ==
    (call = "attributed") =>
        \A i \in DOMAIN args.predictions :
            LET pred == args.predictions[i]
            IN  pred.timestamp + TimeframeDays(pred.timeframe) > Today =>
                    \A j \in DOMAIN answer.value :
                        answer.value[j].prediction_id # pred.id

-----------------------------------------------------------------------------
(* C25 *)

\* C25: a producer with fewer attributed outcomes than the minimum sample count (10) gets
\* no entry in the cycle's weight changes, and the learning cycle leaves that producer's
\* stored weight, in the settings and in the agent_weights table, as it was.
C25_TooFewSamplesKeepWeight ==
    [][call' = "applied" =>
          \A p \in LearnedAgents :
              args'[p] < 10 =>
                  /\ p \notin DOMAIN weight_changes'
                  /\ p \in DOMAIN weight_settings' <=> p \in DOMAIN weight_settings
                  /\ p \in DOMAIN weight_settings => weight_settings'[p] = weight_settings[p]
                  /\ p \in DOMAIN agent_weights' <=> p \in DOMAIN agent_weights
                  /\ p \in DOMAIN agent_weights => agent_weights'[p] = agent_weights[p]]_vars

\* a cycle with 9 outcomes of one producer and 10 of the other changes the other's weight only
C25_Witness ==
    /\ call = "applied"
    /\ args["technical"] = 9
    /\ args["macro_economics"] = 10
    /\ DOMAIN weight_changes = {"macro_economics"}
    /\ weight_changes["macro_economics"] # 1000
    /\ "technical" \in DOMAIN weight_settings

-----------------------------------------------------------------------------
(* C27 *)

\* C27: when two or three outlook buckets tie for the largest score, the case of every
\* successful forecast having weight x confidence = 0 included, the consensus winner is
\* the first of bearish, neutral, bullish among the tied buckets; successful forecasts
\* that all have confidence 0 yield bearish with confidence 0.
C27_TieBreakOrder ==
    \A i \in DOMAIN calls :
        LET v == ValidOutputs(calls[i].outputs)
            won == calls[i].insight.overall_outlook
            largest == {o \in Outlooks :
                           \A other \in Outlooks :
                               BucketSum(v, Bucket(v, o)) >= BucketSum(v, Bucket(v, other))}
        IN  DOMAIN v # {} =>
                /\ won \in largest
                /\ won = "neutral" => "bearish" \notin largest
                /\ won = "bullish" => largest = {"bullish"}
                /\ (\A p \in DOMAIN v : v[p].confidence = 0) =>
                      (won = "bearish" /\ calls[i].insight.confidence.num = 0)

\* a neutral 0.6 and a bullish 0.6 tie and give neutral
C27_Witness ==
    \E i \in DOMAIN calls :
        LET v == ValidOutputs(calls[i].outputs)
        IN  /\ DOMAIN v = {"macro_economics", "technical"}
            /\ v["macro_economics"] = [outlook |-> "bullish", confidence |-> 60,
                                        specific_predictions |-> EmptyDict]
            /\ v["technical"].outlook = "neutral"
            /\ v["technical"].confidence = 60
            /\ calls[i].insight.overall_outlook = "neutral"

-----------------------------------------------------------------------------
(* C28 *)

\* C28: in a run that shares the cache with an earlier run, execution_orders is non-empty
\* in the final state only if the run's own aggregation step succeeded (aggregated_insight
\* is set) with a directional outlook and confidence >= 0.6; no order comes from an
\* insight an earlier run cached.
C28_OrdersFromOwnConsensusOnly ==
    (node = "END" /\ execution_orders.present /\ execution_orders.value # <<>>) =>
        /\ aggregated_insight.present
        /\ aggregated_insight.value.outlook \in {"bullish", "bearish"}
        /\ ~ConfidenceBelow(aggregated_insight.value.confidence, 60)

-----------------------------------------------------------------------------
(* C29 *)

\* C29: the learning-and-execution step never writes to agent_outputs, and a learning or
\* execution producer that fails (success = false, returned or converted from a raise)
\* adds no entry to errors: the step leaves errors as it was, and yields empty
\* learning_insights or an empty execution_orders list for the failed producer.
C29_LearningExecutionFailuresAreSilent ==
    [][node = "run_learning_execution" =>
          /\ agent_outputs' = agent_outputs
          /\ node' # node =>
                /\ errors' = errors
                /\ ProducerFailed("learning") => learning_insights' = Some(EmptyDict)
                /\ ProducerFailed("execution") => execution_orders' = Some(<<>>)]_vars

\* learning and execution failed, execution after it had built its orders: no error names
\* them, the insights are empty and the orders are dropped
C29_Witness ==
    /\ Ran("run_learning_execution")
    /\ ProducerFailed("learning")
    /\ ProducerFailed("execution")
    /\ pending_orders # <<>>
    /\ learning_insights = Some(EmptyDict)
    /\ execution_orders = Some(<<>>)
    /\ \A i \in DOMAIN errors : errors[i] \notin {"learning", "execution", "exception"}

-----------------------------------------------------------------------------
(* C30 *)

\* the producers of the forecasting steps and the risk gate that have succeeded
SuccessfulProducers ==
    {p \in Tasks \ Range(LearningExecutionAgents) :
        status[p] = "settled" /\ ~returned[p].exception /\ returned[p].success}

\* C30: in a non-vetoed run the consensus the aggregation step returns is computed over
\* every successful entry of agent_outputs, the risk gate's own forecast under the key
\* "risk" included: its confidence adds to its outlook's bucket like any other
\* producer's, and the insight's agent_outputs is exactly the set of successful producers.
C30_RiskForecastCountsInConsensus ==
    (current_step = "aggregation_complete") =>
        LET successful == SuccessfulProducers
            v == [p \in successful |-> agent_outputs[p].output.value]
            sums == [o \in Outlooks |-> BucketSum(v, Bucket(v, o))]
            won == aggregated_insight.value.outlook
            conf == aggregated_insight.value.confidence
            insight == Aggregate(agent_outputs, WorkflowOrder(agent_outputs), None,
                                 weighting_method, agent_weights,
                                 CHOOSE synthesis \in Syntheses : TRUE)
        IN  /\ ~vetoed
            /\ aggregated_insight.present
            /\ successful \subseteq DOMAIN agent_outputs
            /\ RiskSucceeded <=> "risk" \in successful
            /\ insight.agent_outputs = successful
            /\ successful # {} =>
                  /\ \A o \in Outlooks : sums[won] >= sums[o]
                  /\ sums["bearish"] + sums["neutral"] + sums["bullish"] > 0 =>
                        conf = [num |-> sums[won],
                                den |-> sums["bearish"] + sums["neutral"] + sums["bullish"]]

\* the risk gate is the only producer that succeeded: its neutral 0.5 is the consensus
C30_Witness ==
    /\ current_step = "aggregation_complete"
    /\ aggregated_insight.present
    /\ SuccessfulProducers = {"risk"}
    /\ aggregated_insight.value.outlook = "neutral"
    /\ aggregated_insight.value.confidence = [num |-> 50000, den |-> 50000]

====
